---- MODULE Spec2Model ----
(***************************************************************************)
(* Model of typhoon_UI.py: URLSummarizer (load_from_url, chunk_text,       *)
(* summarize_chunk, combine_summaries, summarize_url).                     *)
(*                                                                         *)
(* A Python str is a sequence of symbols.  A symbol is one character       *)
(* ("a", "b", " ", "\n", ...) or one atomic token standing for a fixed run *)
(* of characters that the code only ever compares as a whole (the warning  *)
(* glyph, the Thai error label, a fixed message, an exception's text).     *)
(* Python's None is the value None below.                                  *)
(*                                                                         *)
(* The progress(...) callbacks of summarize_url only report to the form;   *)
(* they read no state and decide no branch, and are left out.  The prompt  *)
(* text sent to the completion API does not decide any return value; what  *)
(* the API answers is an input drawn from Responses.  The variable calls   *)
(* records each method call of the current request with its argument and   *)
(* return value, network counts the request's HTTP requests.               *)
(***************************************************************************)
EXTENDS Integers, Sequences, FiniteSets, TLC

\* ---------------------------------------------------------------- bounds
\* longest text handed to chunk_text in the chunker specification
MaxTextLen == 6
\* largest chunk budget tried in the chunker specification
MaxBudget == 4
\* longest raw page text (soup.get_text) in the request specification
MaxRawLen == 5
\* chunk budget used by summarize_url's call chunk_text(content): the default
\* chunk_size=10000 of the source, scaled down so that several chunks arise
DefaultChunkSize == 2
\* message_counter values beyond this are not explored
MaxCounter == 3

\* ------------------------------------------------------- string helpers
\* None is kept apart from every str: no str holds the symbol "NoneType"
None == <<"NoneType">>

IsSpace(c) == c \in {" ", "\n"}

\* s.startswith(prefix)
StartsWith(s, prefix) ==
    /\ Len(s) >= Len(prefix)
    /\ SubSeq(s, 1, Len(prefix)) = prefix

\* truthiness of an Optional[str]: None and "" are falsy
Truthy(s) == s # None /\ s # <<>>

RECURSIVE SplitWords(_, _)
SplitWords(text, cur) ==
    IF text = <<>>
    THEN IF cur = <<>> THEN <<>> ELSE <<cur>>
    ELSE IF IsSpace(Head(text))
         THEN IF cur = <<>>
              THEN SplitWords(Tail(text), <<>>)
              ELSE <<cur>> \o SplitWords(Tail(text), <<>>)
         ELSE SplitWords(Tail(text), Append(cur, Head(text)))

\* text.split(): the maximal runs of non-whitespace, in order
split(text) == SplitWords(text, <<>>)

RECURSIVE join(_, _)
\* sep.join(parts)
join(sep, parts) ==
    IF parts = <<>> THEN <<>>
    ELSE IF Len(parts) = 1 THEN parts[1]
    ELSE parts[1] \o sep \o join(sep, Tail(parts))

RECURSIVE lstrip(_)
lstrip(s) == IF s # <<>> /\ IsSpace(Head(s)) THEN lstrip(Tail(s)) ELSE s

RECURSIVE rstrip(_)
rstrip(s) ==
    IF s # <<>> /\ IsSpace(s[Len(s)]) THEN rstrip(SubSeq(s, 1, Len(s) - 1)) ELSE s

\* s.strip()
strip(s) == rstrip(lstrip(s))

\* ------------------------------------------------------------ chunk_text
\* the state of chunk_text's loop before the first word
ChunkInit == [chunks |-> <<>>, current_chunk |-> <<>>, current_size |-> 0]

\* mutant: the word that overflows the budget is dropped
ChunkLoopBody_DropWord(st, word, chunk_size) ==
    IF st.current_size + Len(word) + 1 > chunk_size
    THEN [chunks |-> Append(st.chunks, join(<<" ">>, st.current_chunk)),
          current_chunk |-> <<>>,
          current_size |-> 0]
    ELSE [chunks |-> st.chunks,
          current_chunk |-> Append(st.current_chunk, word),
          current_size |-> st.current_size + Len(word) + 1]

\* mutant: the budget test is missing, every word joins the current chunk
ChunkLoopBody_NoBudget(st, word, chunk_size) ==
    [chunks |-> st.chunks,
     current_chunk |-> Append(st.current_chunk, word),
     current_size |-> st.current_size + Len(word) + 1]

\* one iteration of "for word in words"
ChunkLoopBody(st, word, chunk_size) ==
    IF st.current_size + Len(word) + 1 > chunk_size
    THEN [chunks |-> Append(st.chunks, join(<<" ">>, st.current_chunk)),
          current_chunk |-> <<word>>,
          current_size |-> Len(word)]
    ELSE [chunks |-> st.chunks,
          current_chunk |-> Append(st.current_chunk, word),
          current_size |-> st.current_size + Len(word) + 1]

RECURSIVE ChunkLoop(_, _, _)
ChunkLoop(st, words, chunk_size) ==
    IF words = <<>> THEN st
    ELSE ChunkLoop(ChunkLoopBody(st, Head(words), chunk_size), Tail(words), chunk_size)

chunk_text(text, chunk_size) ==
    LET st == ChunkLoop(ChunkInit, split(text), chunk_size)
    IN  IF st.current_chunk # <<>>
        THEN Append(st.chunks, join(<<" ">>, st.current_chunk))
        ELSE st.chunks

\* ---------------------------------------------------------- load_from_url
RECURSIVE SplitOn(_, _, _)
\* the pieces of s between occurrences of the one-symbol separator c
SplitOn(s, c, cur) ==
    IF s = <<>> THEN <<cur>>
    ELSE IF Head(s) = c THEN <<cur>> \o SplitOn(Tail(s), c, <<>>)
    ELSE SplitOn(Tail(s), c, Append(cur, Head(s)))

\* s.splitlines(): no line for the empty string, none after a final newline
splitlines(s) ==
    LET parts == SplitOn(s, "\n", <<>>)
    IN  IF parts[Len(parts)] = <<>> THEN SubSeq(parts, 1, Len(parts) - 1) ELSE parts

RECURSIVE SplitDoubleSpace(_, _)
\* line.split("  "): leftmost non-overlapping occurrences of two spaces
SplitDoubleSpace(s, cur) ==
    IF s = <<>> THEN <<cur>>
    ELSE IF Len(s) >= 2 /\ s[1] = " " /\ s[2] = " "
         THEN <<cur>> \o SplitDoubleSpace(SubSeq(s, 3, Len(s)), <<>>)
         ELSE SplitDoubleSpace(Tail(s), Append(cur, Head(s)))

RECURSIVE Phrases(_)
\* (phrase.strip() for line in lines for phrase in line.split("  "))
Phrases(lines) ==
    IF lines = <<>> THEN <<>>
    ELSE LET ps == SplitDoubleSpace(strip(Head(lines)), <<>>)
         IN  [k \in 1..Len(ps) |-> strip(ps[k])] \o Phrases(Tail(lines))

\* lines 46-50: the visible text, one non-blank phrase per line
NormalizeText(raw) ==
    join(<<"\n">>, SelectSeq(Phrases(splitlines(raw)), LAMBDA p : p # <<>>))

\* "Error:", the prefix of load_from_url's error string
ERROR_PREFIX == <<"E", "r", "r", "o", "r", ":">>

\* what requests.get / raise_for_status did: raised, or delivered a page whose
\* visible text (soup.get_text) is raw
FetchOutcomes(raws) ==
    {[raised |-> TRUE, raw |-> <<>>]} \cup {[raised |-> FALSE, raw |-> r] : r \in raws}

load_from_url(outcome) ==
    IF outcome.raised
    THEN ERROR_PREFIX \o <<" ", "str(e)">>
    ELSE NormalizeText(outcome.raw)

\* ------------------------------------------------------ the error strings
\* "## " warning glyph " " Thai error label: the heading every tagged error
\* string starts with and that lines 207 and 222 test for
ERROR_HEADING == <<"#", "#", " ", "WARNING_SIGN", " ", "KHO_PHIT_PHLAT">>

ERR_NO_CLIENT == ERROR_HEADING \o <<"\n", "API key not set">>
ERR_NO_API_KEY == ERROR_HEADING \o <<"\n", "TYPHOON_API_KEY not found">>
ERR_EMPTY_URL == ERROR_HEADING \o <<"\n", "please enter a URL">>
ERR_FETCH_NOTHING == ERROR_HEADING \o <<"\n", "cannot fetch from URL">>
ERR_NO_CONTENT == ERROR_HEADING \o <<"\n", "no content at URL">>
ERR_CANNOT_SUMMARIZE == ERROR_HEADING \o <<"\n", "cannot summarize">>
ErrChunk(chunk_num) ==
    ERROR_HEADING \o <<"\n", "problem summarizing part ", ToString(chunk_num), ": ", "str(e)">>
ERR_COMBINE == ERROR_HEADING \o <<"\n", "problem combining summaries", ": ", "str(e)">>

\* ------------------------------------------------- the remote completions
\* self.client, the OpenAI object built in __init__: always truthy
client == TRUE

\* what client.chat.completions.create did: raised; answered with an empty
\* choices list (choices[0] raises IndexError); or answered with a message
\* whose content is None or a str
Responses ==
    {[kind |-> "raise", content |-> None], [kind |-> "no_choices", content |-> None]}
    \cup {[kind |-> "ok", content |-> c] :
            c \in {None, <<>>, <<"x">>, <<"y">>, ERROR_HEADING \o <<"\n", "z">>}}

\* summarize_chunk's return value; the prompt it sends does not decide it
summarize_chunk(content, is_chunk, chunk_num, total_chunks, resp) ==
    IF ~client THEN ERR_NO_CLIENT
    ELSE IF resp.kind = "ok" THEN resp.content
    ELSE ErrChunk(chunk_num)

\* combine_summaries' return value and the message_counter it leaves:
\* line 155 increments after create returned, before line 156 reads choices[0]
combine_summaries(summaries, counter, resp) ==
    IF ~client THEN [ret |-> ERR_NO_CLIENT, counter |-> counter]
    ELSE IF resp.kind = "raise" THEN [ret |-> ERR_COMBINE, counter |-> counter]
    ELSE IF resp.kind = "no_choices" THEN [ret |-> ERR_COMBINE, counter |-> counter + 1]
    ELSE [ret |-> resp.content, counter |-> counter + 1]

\* --------------------------------------------- summarize_url's conditions
\* line 174: url.startswith(('http://', 'https://'))
HasScheme(u) == StartsWith(u, <<"http://">>) \/ StartsWith(u, <<"https://">>)

\* mutant: the "Error:" test is missing
FetchFailed_NoPrefixTest(content) == ~Truthy(content)

\* line 180: not content or content.startswith("Error:")
FetchFailed(content) == ~Truthy(content) \/ StartsWith(content, ERROR_PREFIX)

\* mutant: every non-empty result is collected, error strings too
ChunkSucceeded_NoErrorTest(summary) == Truthy(summary)

\* lines 207 and 222: summary and not summary.startswith(heading)
ChunkSucceeded(summary) == Truthy(summary) /\ ~StartsWith(summary, ERROR_HEADING)

\* ------------------------------------------------------------- the state
VARIABLES
    text,             \* chunker specification: the argument text of chunk_text
    chunk_size,       \* chunker specification: the argument chunk_size
    returned,         \* chunker specification: the list chunk_text returned
    cpc,              \* chunker specification: "call" before, "return" after
    TYPHOON_API_KEY,  \* the module global read from the environment (line 12)
    message_counter,  \* self.message_counter
    pc,               \* where summarize_url stands
    arg_url,          \* the url the request was called with
    url,              \* summarize_url's local url
    content,          \* summarize_url's local content
    chunks,           \* summarize_url's local chunks
    i,                \* the loop index of line 203 (0-based)
    chunk_summaries,  \* summarize_url's local chunk_summaries
    summary,          \* summarize_url's local summary
    result,           \* what summarize_url returned
    calls,            \* this request's calls of the four methods, in order
    network           \* this request's HTTP requests (page GET, completions)

cvars == <<text, chunk_size, returned, cpc>>
rvars == <<TYPHOON_API_KEY, message_counter, pc, arg_url, url, content, chunks, i,
           chunk_summaries, summary, result, calls, network>>
vars == <<cvars, rvars>>

Chars == {"a", "b", " "}
RawChars == {"a", " ", "\n"}

Texts(alphabet, n) == UNION {[1..k -> alphabet] : k \in 0..n}

\* the url a request can be called with
Urls == {<<>>, <<"example.com">>, <<"https://", "example.com">>}

\* -------------------------------------------------- the chunker on its own
\* the request state before the first request (after __init__, line 27)
RequestIdle ==
    /\ message_counter = 1
    /\ pc = "idle"
    /\ arg_url = <<>>
    /\ url = <<>>
    /\ content = None
    /\ chunks = <<>>
    /\ i = 0
    /\ chunk_summaries = <<>>
    /\ summary = None
    /\ result = None
    /\ calls = <<>>
    /\ network = 0

InitChunker ==
    /\ text \in Texts(Chars, MaxTextLen)
    /\ chunk_size \in 1..MaxBudget
    /\ returned = <<>>
    /\ cpc = "call"
    /\ TYPHOON_API_KEY = <<"key">>
    /\ RequestIdle

CallChunkText ==
    /\ cpc = "call"
    /\ returned' = chunk_text(text, chunk_size)
    /\ cpc' = "return"
    /\ UNCHANGED <<text, chunk_size>>
    /\ UNCHANGED rvars

NextChunker == CallChunkText

SpecChunker == InitChunker /\ [][NextChunker]_vars

\* ------------------------------------------------------------ summarize_url
Init ==
    /\ text = <<>>
    /\ chunk_size = 1
    /\ returned = <<>>
    /\ cpc = "unused"
    /\ TYPHOON_API_KEY \in {None, <<>>, <<"key">>}
    /\ RequestIdle

Call(op, arg, ret) == [op |-> op, arg |-> arg, ret |-> ret]

\* mutant: the empty-url test of line 170 is missing
Request_NoEmptyTest(u) ==
    /\ pc \in {"idle", "done"}
    /\ message_counter <= MaxCounter
    /\ arg_url' = u
    /\ content' = None
    /\ chunks' = <<>>
    /\ i' = 0
    /\ chunk_summaries' = <<>>
    /\ summary' = None
    /\ calls' = <<>>
    /\ network' = 0
    /\ IF ~Truthy(TYPHOON_API_KEY)
       THEN /\ result' = ERR_NO_API_KEY
            /\ url' = u
            /\ pc' = "done"
       ELSE /\ result' = None
            /\ url' = IF HasScheme(u) THEN u ELSE <<"https://">> \o u
            /\ pc' = "load"
    /\ UNCHANGED <<TYPHOON_API_KEY, message_counter>>
    /\ UNCHANGED cvars

\* summarize_url(u) is called: lines 163-175
Request(u) ==
    /\ pc \in {"idle", "done"}
    /\ message_counter <= MaxCounter
    /\ arg_url' = u
    /\ content' = None
    /\ chunks' = <<>>
    /\ i' = 0
    /\ chunk_summaries' = <<>>
    /\ summary' = None
    /\ calls' = <<>>
    /\ network' = 0
    /\ IF ~Truthy(TYPHOON_API_KEY)
       THEN /\ result' = ERR_NO_API_KEY
            /\ url' = u
            /\ pc' = "done"
       ELSE IF ~Truthy(u)
       THEN /\ result' = ERR_EMPTY_URL
            /\ url' = u
            /\ pc' = "done"
       ELSE /\ result' = None
            /\ url' = IF HasScheme(u) THEN u ELSE <<"https://">> \o u
            /\ pc' = "load"
    /\ UNCHANGED <<TYPHOON_API_KEY, message_counter>>
    /\ UNCHANGED cvars

\* lines 178-185: the page is fetched and the fetch result tested
LoadFromUrl ==
    /\ pc = "load"
    /\ \E outcome \in FetchOutcomes(Texts(RawChars, MaxRawLen)) :
         LET c == load_from_url(outcome)
         IN  /\ content' = c
             /\ calls' = Append(calls, Call("load_from_url", url, c))
             /\ network' = network + 1
             /\ IF FetchFailed(c)
                THEN /\ result' = IF Truthy(c) THEN c ELSE ERR_FETCH_NOTHING
                     /\ pc' = "done"
                ELSE IF ~Truthy(strip(c))
                THEN /\ result' = ERR_NO_CONTENT
                     /\ pc' = "done"
                ELSE /\ result' = result
                     /\ pc' = "chunk"
    /\ UNCHANGED <<TYPHOON_API_KEY, message_counter, arg_url, url, chunks, i,
                   chunk_summaries, summary>>
    /\ UNCHANGED cvars

\* lines 188-202: the content is chunked and the path chosen
ChunkContent ==
    /\ pc = "chunk"
    /\ LET cs == chunk_text(content, DefaultChunkSize)
       IN  /\ chunks' = cs
           /\ calls' = Append(calls, Call("chunk_text", content, cs))
           /\ pc' = IF Len(cs) = 1 THEN "single" ELSE "loop"
    /\ summary' = None
    /\ chunk_summaries' = <<>>
    /\ i' = 0
    /\ UNCHANGED <<TYPHOON_API_KEY, message_counter, arg_url, url, content, result,
                   network>>
    /\ UNCHANGED cvars

\* line 196: the only chunk is summarized
SummarizeSingle ==
    /\ pc = "single"
    /\ \E resp \in Responses :
         LET s == summarize_chunk(chunks[1], FALSE, 0, 1, resp)
         IN  /\ summary' = s
             /\ calls' = Append(calls,
                    Call("summarize_chunk",
                         [content |-> chunks[1], is_chunk |-> FALSE, chunk_num |-> 0,
                          total_chunks |-> 1], s))
    /\ network' = IF client THEN network + 1 ELSE network
    /\ pc' = "finish"
    /\ UNCHANGED <<TYPHOON_API_KEY, message_counter, arg_url, url, content, chunks, i,
                   chunk_summaries, result>>
    /\ UNCHANGED cvars

\* mutant: a chunk whose call failed is tried again
SummarizeNext_RetryFailed ==
    /\ pc = "loop"
    /\ i < Len(chunks)
    /\ Len(calls) < 2 * Len(chunks) + 2
    /\ \E resp \in Responses :
         LET s == summarize_chunk(chunks[i + 1], TRUE, i + 1, Len(chunks), resp)
         IN  /\ summary' = s
             /\ calls' = Append(calls,
                    Call("summarize_chunk",
                         [content |-> chunks[i + 1], is_chunk |-> TRUE,
                          chunk_num |-> i + 1, total_chunks |-> Len(chunks)], s))
             /\ chunk_summaries' =
                    IF ChunkSucceeded(s) THEN Append(chunk_summaries, s)
                    ELSE chunk_summaries
             /\ i' = IF ChunkSucceeded(s) THEN i + 1 ELSE i
    /\ network' = IF client THEN network + 1 ELSE network
    /\ pc' = "loop"
    /\ UNCHANGED <<TYPHOON_API_KEY, message_counter, arg_url, url, content, chunks,
                   result>>
    /\ UNCHANGED cvars

\* lines 203-208: one iteration of the loop over the chunks
SummarizeNext ==
    /\ pc = "loop"
    /\ i < Len(chunks)
    /\ \E resp \in Responses :
         LET s == summarize_chunk(chunks[i + 1], TRUE, i + 1, Len(chunks), resp)
         IN  /\ summary' = s
             /\ calls' = Append(calls,
                    Call("summarize_chunk",
                         [content |-> chunks[i + 1], is_chunk |-> TRUE,
                          chunk_num |-> i + 1, total_chunks |-> Len(chunks)], s))
             /\ chunk_summaries' =
                    IF ChunkSucceeded(s) THEN Append(chunk_summaries, s)
                    ELSE chunk_summaries
    /\ i' = i + 1
    /\ network' = IF client THEN network + 1 ELSE network
    /\ pc' = "loop"
    /\ UNCHANGED <<TYPHOON_API_KEY, message_counter, arg_url, url, content, chunks,
                   result>>
    /\ UNCHANGED cvars

\* mutant: the "nothing succeeded" return of lines 210-211 is missing
AfterLoop_NoTotalFailure ==
    /\ pc = "loop"
    /\ i = Len(chunks)
    /\ IF Len(chunk_summaries) = 1
       THEN /\ summary' = chunk_summaries[1]
            /\ result' = result
            /\ pc' = "finish"
       ELSE /\ summary' = summary
            /\ result' = result
            /\ pc' = "combine"
    /\ UNCHANGED <<TYPHOON_API_KEY, message_counter, arg_url, url, content, chunks, i,
                   chunk_summaries, calls, network>>
    /\ UNCHANGED cvars

\* lines 210-217: the loop is over, the successes are counted
AfterLoop ==
    /\ pc = "loop"
    /\ i = Len(chunks)
    /\ IF chunk_summaries = <<>>
       THEN /\ summary' = summary
            /\ result' = ERR_CANNOT_SUMMARIZE
            /\ pc' = "done"
       ELSE IF Len(chunk_summaries) = 1
       THEN /\ summary' = chunk_summaries[1]
            /\ result' = result
            /\ pc' = "finish"
       ELSE /\ summary' = summary
            /\ result' = result
            /\ pc' = "combine"
    /\ UNCHANGED <<TYPHOON_API_KEY, message_counter, arg_url, url, content, chunks, i,
                   chunk_summaries, calls, network>>
    /\ UNCHANGED cvars

\* line 218: the successful partial summaries are combined
Combine ==
    /\ pc = "combine"
    /\ \E resp \in Responses :
         LET r == combine_summaries(chunk_summaries, message_counter, resp)
         IN  /\ summary' = r.ret
             /\ message_counter' = r.counter
             /\ calls' = Append(calls, Call("combine_summaries", chunk_summaries, r.ret))
    /\ network' = IF client THEN network + 1 ELSE network
    /\ pc' = "finish"
    /\ UNCHANGED <<TYPHOON_API_KEY, arg_url, url, content, chunks, i, chunk_summaries,
                   result>>
    /\ UNCHANGED cvars

\* lines 222-225: summarize_url returns
Finish ==
    /\ pc = "finish"
    /\ result' = IF ChunkSucceeded(summary) THEN summary
                 ELSE IF Truthy(summary) THEN summary ELSE ERR_CANNOT_SUMMARIZE
    /\ pc' = "done"
    /\ UNCHANGED <<TYPHOON_API_KEY, message_counter, arg_url, url, content, chunks, i,
                   chunk_summaries, summary, calls, network>>
    /\ UNCHANGED cvars

Next ==
    \/ \E u \in Urls : Request(u)
    \/ LoadFromUrl
    \/ ChunkContent
    \/ SummarizeSingle
    \/ SummarizeNext
    \/ AfterLoop
    \/ Combine
    \/ Finish

Spec == Init /\ [][Next]_vars

\* ------------------------------------------------- reading the call log
SummarizeCalls == SelectSeq(calls, LAMBDA c : c.op = "summarize_chunk")
CombineCalls == SelectSeq(calls, LAMBDA c : c.op = "combine_summaries")
Rets(cs) == [k \in 1..Len(cs) |-> cs[k].ret]

\* the result is tagged as an error: it begins with the heading
Tagged(r) == Len(r) >= Len(ERROR_HEADING) /\ SubSeq(r, 1, Len(ERROR_HEADING)) = ERROR_HEADING
\* the result is a non-empty text that is not tagged as an error
Usable(r) == r # None /\ r # <<>> /\ ~Tagged(r)

\* a request that went through its whole loop over more than one chunk
MultiDone == pc = "done" /\ Len(chunks) > 1 /\ Len(SummarizeCalls) = Len(chunks)

RECURSIVE ConcatWords(_)
\* the words of the chunks, chunk after chunk
ConcatWords(cs) == IF cs = <<>> THEN <<>> ELSE split(Head(cs)) \o ConcatWords(Tail(cs))

\* ------------------------------------------------------------------ C1
\* C1 as stated: in a request with more than one chunk in which at least two
\* summarize_chunk calls returned a result that is not an error string,
\* combine_summaries was called exactly once, with exactly those results in
\* chunk order.
C1_AsStated ==
    LET good == SelectSeq(Rets(SummarizeCalls), LAMBDA r : ~Tagged(r))
    IN  (MultiDone /\ Len(good) >= 2) =>
            /\ Len(CombineCalls) = 1
            /\ CombineCalls[1].arg = good

\* C1 amended: in a request with more than one chunk in which at least two
\* summarize_chunk calls returned a non-empty result that is not an error
\* string, combine_summaries was called exactly once, with exactly those
\* results in chunk order; empty and None results are left out like the
\* failed ones.
C1_CombineOnceInOrder ==
    LET good == SelectSeq(Rets(SummarizeCalls), Usable)
    IN  (MultiDone /\ Len(good) >= 2) =>
            /\ Len(CombineCalls) = 1
            /\ CombineCalls[1].arg = good

C1_Witness ==
    /\ MultiDone
    /\ Len(chunks) >= 3
    /\ Usable(SummarizeCalls[1].ret)
    /\ Tagged(SummarizeCalls[2].ret)
    /\ Usable(SummarizeCalls[3].ret)
    /\ SummarizeCalls[1].ret # SummarizeCalls[3].ret
    /\ Len(CombineCalls) = 1

\* ------------------------------------------------------------------ C2
\* C2: a combine_summaries call that returns the model's text raises
\* message_counter by one, and one that returns the error string of its
\* except branch (or of the missing client) leaves message_counter as it was.
C2_CounterFollowsOutcome ==
    [][(pc = "combine" /\ pc' = "finish") =>
          IF summary' \in {ERR_COMBINE, ERR_NO_CLIENT}
          THEN message_counter' = message_counter
          ELSE message_counter' = message_counter + 1]_vars

\* ------------------------------------------------------------------ C3
\* every chunk was summarized and every call returned an error string
AllChunksFailed ==
    /\ pc = "done"
    /\ Len(chunks) >= 1
    /\ Len(SummarizeCalls) = Len(chunks)
    /\ \A k \in 1..Len(SummarizeCalls) : Tagged(SummarizeCalls[k].ret)

\* C3 as stated: for every N >= 1, when all N summarize_chunk calls fail the
\* request returns the generic could-not-summarize error and
\* combine_summaries is not called.
C3_AsStated ==
    AllChunksFailed => (result = ERR_CANNOT_SUMMARIZE /\ CombineCalls = <<>>)

\* C3 amended: when all N summarize_chunk calls fail, combine_summaries is
\* not called; for N >= 2 the request returns the generic could-not-summarize
\* error, and for N = 1 it returns the error string of the one failed call.
C3_AllFailed ==
    AllChunksFailed =>
        /\ CombineCalls = <<>>
        /\ Len(chunks) >= 2 => result = ERR_CANNOT_SUMMARIZE
        /\ Len(chunks) = 1 => result = SummarizeCalls[1].ret

C3_Witness == AllChunksFailed /\ Len(chunks) >= 2 /\ result = ERR_CANNOT_SUMMARIZE

\* ------------------------------------------------------------------ C4
\* C4 as stated: a request with the empty url returns the empty-url error
\* and makes no network call, whether or not the API key is set.
C4_AsStated ==
    (pc = "done" /\ arg_url = <<>>) => (result = ERR_EMPTY_URL /\ network = 0)

\* C4 amended: a request with the empty url makes no network call and calls
\* none of the four methods; it returns the empty-url error when the API key
\* is set and the missing-key error when it is not.
C4_EmptyUrl ==
    (pc = "done" /\ arg_url = <<>>) =>
        /\ network = 0
        /\ calls = <<>>
        /\ result = IF TYPHOON_API_KEY \in {None, <<>>} THEN ERR_NO_API_KEY
                    ELSE ERR_EMPTY_URL

C4_Witness ==
    pc = "done" /\ arg_url = <<>> /\ TYPHOON_API_KEY = <<"key">> /\ result = ERR_EMPTY_URL

\* ------------------------------------------------------------------ C5
\* C5: whatever summarize_url returns is either a text the model produced
\* (the result of a summarize_chunk or combine_summaries call) or a string
\* that begins with the error heading.
C5_ErrorsAreTagged ==
    (pc = "done" /\ ~Tagged(result)) =>
        \E k \in 1..Len(calls) :
            /\ calls[k].op \in {"summarize_chunk", "combine_summaries"}
            /\ calls[k].ret = result

\* ------------------------------------------------------------------ C6
\* C6: for a non-empty text and a budget B > 0, the words of the chunks that
\* chunk_text returns, chunk after chunk, are the words of the text.
C6_WordsPreserved ==
    (cpc = "return" /\ text # <<>> /\ chunk_size > 0) =>
        ConcatWords(returned) = split(text)

C6_Witness ==
    /\ cpc = "return"
    /\ Len(split(text)) >= 2
    /\ Len(returned) >= 2
    /\ \E k \in 1..Len(returned) : Len(split(returned[k])) >= 2

\* ------------------------------------------------------------------ C7
\* C7: every chunk chunk_text returns is at most B symbols long, unless it
\* is one single word longer than B; and every word longer than B is a chunk
\* of its own, whole.
C7_ChunkWithinBudget ==
    (cpc = "return" /\ chunk_size > 0) =>
        /\ \A k \in 1..Len(returned) :
              \/ Len(returned[k]) <= chunk_size
              \/ /\ split(returned[k]) = <<returned[k]>>
                 /\ Len(returned[k]) > chunk_size
        /\ \A w \in 1..Len(split(text)) :
              Len(split(text)[w]) > chunk_size =>
                  \E k \in 1..Len(returned) : returned[k] = split(text)[w]

C7_Witness ==
    /\ cpc = "return"
    /\ \E k \in 1..Len(returned) : Len(returned[k]) > chunk_size
    /\ \E k \in 1..Len(returned) : Len(returned[k]) = chunk_size

\* ------------------------------------------------------------------ C8
\* C8: when load_from_url returned a string beginning "Error:", the request
\* has returned exactly that string and called no other method.
C8_FetchErrorReturned ==
    (Len(calls) >= 1 /\ StartsWith(calls[1].ret, ERROR_PREFIX)) =>
        /\ pc = "done"
        /\ result = calls[1].ret
        /\ Len(calls) = 1

C8_Witness ==
    /\ pc = "done"
    /\ Len(calls) = 1
    /\ calls[1].op = "load_from_url"
    /\ StartsWith(calls[1].ret, ERROR_PREFIX)
    /\ result = calls[1].ret

\* ------------------------------------------------------------------ C9
\* C9: the calls of a request are, in this order, one load_from_url, one
\* chunk_text, one summarize_chunk per chunk in ascending chunk index, and
\* at most one combine_summaries, which is last; a request that chunked and
\* returned has summarized every chunk exactly once.
C9_CallOrder ==
    /\ \A k \in 1..Len(calls) :
          /\ (calls[k].op = "load_from_url") <=> (k = 1)
          /\ (calls[k].op = "chunk_text") <=> (k = 2)
          /\ calls[k].op = "summarize_chunk" =>
                /\ k - 2 \in 1..Len(calls[2].ret)
                /\ calls[k].arg.content = calls[2].ret[k - 2]
                /\ calls[k].arg.is_chunk => calls[k].arg.chunk_num = k - 2
                /\ calls[k].arg.is_chunk <=> (Len(calls[2].ret) # 1)
          /\ calls[k].op = "combine_summaries" =>
                /\ k = Len(calls)
                /\ k = Len(calls[2].ret) + 3
    /\ (pc = "done" /\ Len(calls) >= 2) => Len(SummarizeCalls) = Len(calls[2].ret)

C9_Witness ==
    /\ pc = "done"
    /\ Len(calls) = 6
    /\ Len(chunks) = 3
    /\ Tagged(calls[3].ret)
    /\ Usable(calls[4].ret)
    /\ Usable(calls[5].ret)
    /\ calls[6].op = "combine_summaries"

\* ------------------------------------------------------------------ C10
\* C10: every chunk chunk_text returns holds at least one word, and a text
\* of exactly one word yields exactly one chunk.
C10_NoEmptyChunk ==
    (cpc = "return" /\ chunk_size > 0) =>
        /\ \A k \in 1..Len(returned) : split(returned[k]) # <<>>
        /\ Len(split(text)) = 1 => Len(returned) = 1

====
